---- MODULE Spec2Model ----
(***************************************************************************)
(* Mission Peak Weather Worker (src/src/index.js).                         *)
(*                                                                         *)
(* Numbers.  The provider's decimal readings (temperature, wind speed,     *)
(* cloud cover, solar radiation, CAPE) are held in tenths of their unit;   *)
(* humidity, precipitation probability, wind direction and AQI are whole   *)
(* numbers.  A JavaScript value that may be undefined is a sequence:       *)
(* << >> for undefined, <<v>> for the value v.  Arithmetic on the          *)
(* sweat-loss formula is exact (no floating-point rounding error).         *)
(***************************************************************************)
EXTENDS Integers, Sequences, FiniteSets, TLC

(***************************************************************************)
(* Math.round: the nearest integer, a tie going towards +infinity.         *)
(* x is in tenths.                                                         *)
(***************************************************************************)
MathRound(x) == (x + 5) \div 10

\* Math.min
MathMin(a, b) == IF a < b THEN a ELSE b

(***************************************************************************)
(* Exact non-negative integers beyond the machine range, as little-endian  *)
(* sequences of base-10000 digits; used only to evaluate the product of    *)
(* factors in estimateSweatLoss without loss.                              *)
(***************************************************************************)
RECURSIVE BigMulCarry(_, _, _)
BigMulCarry(b, m, carry) ==
  IF b = << >>
    THEN IF carry = 0 THEN << >>
         ELSE <<carry % 10000>> \o BigMulCarry(<< >>, m, carry \div 10000)
    ELSE LET t == Head(b) * m + carry
         IN  <<t % 10000>> \o BigMulCarry(Tail(b), m, t \div 10000)

BigMul(b, m) == BigMulCarry(b, m, 0)

RECURSIVE BigProduct(_)
BigProduct(factors) ==
  IF factors = << >> THEN <<1>>
  ELSE BigMul(BigProduct(Tail(factors)), Head(factors))

RECURSIVE BigAddCarry(_, _, _)
BigAddCarry(a, b, carry) ==
  IF a = << >> /\ b = << >>
    THEN IF carry = 0 THEN << >> ELSE <<carry>>
    ELSE LET x == IF a = << >> THEN 0 ELSE Head(a)
             y == IF b = << >> THEN 0 ELSE Head(b)
             t == x + y + carry
         IN  <<t % 10000>> \o
             BigAddCarry(IF a = << >> THEN << >> ELSE Tail(a),
                         IF b = << >> THEN << >> ELSE Tail(b),
                         t \div 10000)

BigAdd(a, b) == BigAddCarry(a, b, 0)

\* b - 1, for b >= 1
RECURSIVE BigDec(_)
BigDec(b) ==
  IF Head(b) > 0 THEN <<Head(b) - 1>> \o Tail(b)
  ELSE <<9999>> \o BigDec(Tail(b))

\* quotient and remainder of b by a small divisor d
RECURSIVE BigDivRem(_, _)
BigDivRem(b, d) ==
  IF b = << >> THEN [q |-> << >>, r |-> 0]
  ELSE LET hi  == BigDivRem(Tail(b), d)
           cur == hi.r * 10000 + Head(b)
       IN  [q |-> <<cur \div d>> \o hi.q, r |-> cur % d]

\* floor(b / (d1 * d2 * ...)), dividing by one small divisor after another
RECURSIVE BigDivAll(_, _)
BigDivAll(b, divisors) ==
  IF divisors = << >> THEN b
  ELSE BigDivAll(BigDivRem(b, Head(divisors)).q, Tail(divisors))

RECURSIVE BigToInt(_)
BigToInt(b) ==
  IF b = << >> THEN 0 ELSE Head(b) + 10000 * BigToInt(Tail(b))

(***************************************************************************)
(* Math.round(num / den) for an integer num given as sign and factors and  *)
(* den > 0 given as factors: floor(num/den + 1/2).                         *)
(***************************************************************************)
RoundQuotient(negative, numFactors, denFactors) ==
  LET M   == BigProduct(numFactors)
      Den == BigProduct(denFactors)
      Y   == BigAdd(BigMul(M, 2), Den)
  IN  IF negative
        THEN 0 - BigToInt(BigDivAll(BigDec(Y), <<2>> \o denFactors))
        ELSE BigToInt(BigDivAll(Y, <<2>> \o denFactors))

Abs(x) == IF x < 0 THEN 0 - x ELSE x

\* JavaScript's remainder: the sign follows the dividend
JsRem(a, n) == IF a >= 0 THEN a % n ELSE 0 - ((0 - a) % n)

(***************************************************************************)
(* Dates.  A Date is [year, month, date, hours] with month 0..11 as        *)
(* getMonth() gives it; a provider timestamp "YYYY-MM-DDTHH:00" is         *)
(* [y, mo, d, h] with mo 1..12.  The runtime's local zone is the zone the  *)
(* timestamps are parsed in, so the parsed fields are the written ones.    *)
(***************************************************************************)
IsLeapYear(y) == (y % 4 = 0 /\ y % 100 # 0) \/ y % 400 = 0

DaysInMonth(y, m) ==
  IF m = 1 THEN (IF IsLeapYear(y) THEN 29 ELSE 28)
  ELSE IF m \in {3, 5, 8, 10} THEN 30 ELSE 31

\* new Date(time) of a provider timestamp
NewDate(time) ==
  [year |-> time.y, month |-> time.mo - 1, date |-> time.d, hours |-> time.h]

\* d.setDate(d.getDate() + 1): the next calendar day, months and years rolling
SetDatePlusOne(d) ==
  IF d.date < DaysInMonth(d.year, d.month)
    THEN [d EXCEPT !.date = d.date + 1]
  ELSE IF d.month < 11
    THEN [d EXCEPT !.date = 1, !.month = d.month + 1]
  ELSE [d EXCEPT !.date = 1, !.month = 0, !.year = d.year + 1]

\* d.setHours(h, 0, 0, 0) for h in 0..23
SetHours(d, h) == [d EXCEPT !.hours = h]

\* the "tomorrow" of getNextMorningData and generateWeatherReport
Tomorrow(now, targetHour) == SetHours(SetDatePlusOne(now), targetHour)

\* Array.prototype.findIndex, given the callback's verdict on each element in
\* order: the first 0-based index whose verdict is true, -1 when none is
FindIndex(verdicts) ==
  IF \E i \in 1..Len(verdicts) : verdicts[i]
    THEN (CHOOSE i \in 1..Len(verdicts) :
            verdicts[i] /\ \A j \in 1..(i - 1) : ~verdicts[j]) - 1
    ELSE -1

\* arr[index] for a 0-based index; undefined outside the array
At(arr, index) ==
  IF index >= 0 /\ index < Len(arr) THEN <<arr[index + 1]>> ELSE << >>

(***************************************************************************)
(* Condition analyzer                                                      *)
(***************************************************************************)
getAQIDescription(aqi) ==
  IF aqi <= 50 THEN "Good"
  ELSE IF aqi <= 100 THEN "Moderate"
  ELSE IF aqi <= 150 THEN "Unhealthy for Sensitive Groups"
  ELSE IF aqi <= 200 THEN "Unhealthy"
  ELSE IF aqi <= 300 THEN "Very Unhealthy"
  ELSE "Hazardous"

formatTime(hour) ==
  IF hour = 0 THEN <<12, "am">>
  ELSE IF hour = 12 THEN <<12, "pm">>
  ELSE IF hour < 12 THEN <<hour, "am">>
  ELSE <<hour - 12, "pm">>

\* the test of the findIndex callbacks: same hour-of-day, day-of-month and
\* month as tomorrow (the year is not compared)
MatchesTarget(time, targetHour, tomorrow) ==
  LET dataTime == NewDate(time)
  IN  /\ dataTime.hours = targetHour
      /\ dataTime.date = tomorrow.date
      /\ dataTime.month = tomorrow.month

NoDataError(targetHour) ==
  [name |-> "Error",
   message |-> <<"No weather data available for", formatTime(targetHour)>>]

\* getNextMorningData with the day-of-month comparison left out of the test
getNextMorningData_anyDay(hourlyData, targetHour, now) ==
  LET tomorrow == Tomorrow(now, targetHour)
      Test(time) == /\ NewDate(time).hours = targetHour
                    /\ NewDate(time).month = tomorrow.month
      index == FindIndex([i \in 1..Len(hourlyData.time) |-> Test(hourlyData.time[i])])
  IN  IF index = -1
        THEN [threw |-> TRUE, error |-> NoDataError(targetHour)]
        ELSE [threw |-> FALSE,
              value |->
                [temperature |-> hourlyData.temperature_2m[index + 1],
                 humidity |-> hourlyData.relative_humidity_2m[index + 1],
                 windSpeed |-> hourlyData.wind_speed_10m[index + 1],
                 windDirection |-> hourlyData.wind_direction_10m[index + 1],
                 cloudCover |-> hourlyData.cloud_cover[index + 1],
                 lowClouds |-> hourlyData.cloud_cover_low[index + 1],
                 midClouds |-> hourlyData.cloud_cover_mid[index + 1],
                 highClouds |-> hourlyData.cloud_cover_high[index + 1],
                 precipitationProbability |->
                   hourlyData.precipitation_probability[index + 1],
                 solarRadiation |-> hourlyData.shortwave_radiation[index + 1],
                 cape |-> hourlyData.cape[index + 1]]]

\* now is the value of new Date() at the call
getNextMorningData(hourlyData, targetHour, now) ==
  LET tomorrow == Tomorrow(now, targetHour)
      Test(time) == MatchesTarget(time, targetHour, tomorrow)
      index == FindIndex([i \in 1..Len(hourlyData.time) |-> Test(hourlyData.time[i])])
  IN  IF index = -1
        THEN [threw |-> TRUE, error |-> NoDataError(targetHour)]
        ELSE [threw |-> FALSE,
              value |->
                [temperature |-> hourlyData.temperature_2m[index + 1],
                 humidity |-> hourlyData.relative_humidity_2m[index + 1],
                 windSpeed |-> hourlyData.wind_speed_10m[index + 1],
                 windDirection |-> hourlyData.wind_direction_10m[index + 1],
                 cloudCover |-> hourlyData.cloud_cover[index + 1],
                 lowClouds |-> hourlyData.cloud_cover_low[index + 1],
                 midClouds |-> hourlyData.cloud_cover_mid[index + 1],
                 highClouds |-> hourlyData.cloud_cover_high[index + 1],
                 precipitationProbability |->
                   hourlyData.precipitation_probability[index + 1],
                 solarRadiation |-> hourlyData.shortwave_radiation[index + 1],
                 cape |-> hourlyData.cape[index + 1]]]

detectInversion(trailheadTemp, summitTemp) == summitTemp > trailheadTemp

\* formatWindSpeed with each boundary speed left in the lower range
formatWindSpeed_inclusive(speed) ==
  IF speed <= 50 THEN "Calm"
  ELSE IF speed <= 100 THEN "Light breeze"
  ELSE IF speed <= 150 THEN "Moderate breeze"
  ELSE IF speed <= 200 THEN "Strong breeze"
  ELSE "High winds"

\* speed in tenths of a mph
formatWindSpeed(speed) ==
  IF speed < 50 THEN "Calm"
  ELSE IF speed < 100 THEN "Light breeze"
  ELSE IF speed < 150 THEN "Moderate breeze"
  ELSE IF speed < 200 THEN "Strong breeze"
  ELSE "High winds"

directions == <<"N", "NE", "E", "SE", "S", "SW", "W", "NW">>

\* getWindDirection with Math.floor in place of Math.round
getWindDirection_floor(degrees) ==
  LET index == JsRem(degrees \div 45, 8)
  IN  IF index >= 0 /\ index < Len(directions)
        THEN directions[index + 1]
        ELSE "undefined"

\* degrees is a whole number; Math.round(degrees / 45) = floor((2d + 45) / 90);
\* an index outside the array reads undefined
getWindDirection(degrees) ==
  LET index == JsRem((2 * degrees + 45) \div 90, 8)
  IN  IF index >= 0 /\ index < Len(directions)
        THEN directions[index + 1]
        ELSE "undefined"

ELEVATION_GAIN == 2150
basePace == 10
baseSweatRate == 650
\* DISTANCE = 6.22 miles, in hundredths
DISTANCE == 622

\* estimatedDuration in minutes, as numerator over 100000
estimatedDurationNum == (1000 * basePace + ELEVATION_GAIN) * DISTANCE

(***************************************************************************)
(* temperature, humidity, windSpeed and solarRadiation are in twentieths   *)
(* of their unit (the caller passes averages of two readings).  liters is  *)
(* returned in tenths.  Each factor is its numerator over a fixed          *)
(* denominator: tempFactor /1000, humidityFactor /4000, windFactor /2000,  *)
(* elevationSweatFactor /20000, solarFactor /80000.                        *)
(***************************************************************************)
estimateSweatLoss(temperature, humidity, windSpeed, elevation, solarRadiation) ==
  LET tempFactor == 1000 + (temperature - 20 * 70)
      humidityFactor == 4000 + (humidity - 20 * 50)
      windFactor == 2000 - windSpeed
      elevationSweatFactor == 20000 + ELEVATION_GAIN
      solarFactor == 80000 + 3 * MathMin(solarRadiation, 20 * 1000)
      negatives == Cardinality({i \in 1..4 :
                     <<tempFactor, humidityFactor, windFactor, solarFactor>>[i] < 0})
      \* sweatLoss (ml) * 10 / 1000, the value handed to Math.round
      num == <<baseSweatRate, Abs(tempFactor), Abs(humidityFactor),
               Abs(windFactor), elevationSweatFactor, Abs(solarFactor),
               (1000 * basePace + ELEVATION_GAIN), DISTANCE, 10>>
      den == <<1000, 4000, 2000, 20000, 80000, 100000, 60, 1000>>
  IN  [liters |-> RoundQuotient(negatives % 2 = 1, num, den),
       duration |-> (2 * estimatedDurationNum + 100000) \div 200000]

\* getGloveRecommendation with each cutoff left in the colder range
getGloveRecommendation_inclusive(trailheadTemp, summitTemp) ==
  LET avgTemp2 == trailheadTemp + summitTemp
  IN  IF avgTemp2 <= 2 * 40 THEN "Yes, definitely"
      ELSE IF avgTemp2 <= 2 * 45 THEN "Yes, recommended"
      ELSE IF avgTemp2 <= 2 * 52 THEN "Maybe, if you run cold"
      ELSE "No"

\* whole degrees; avgTemp < c is (trailheadTemp + summitTemp) < 2c
getGloveRecommendation(trailheadTemp, summitTemp) ==
  LET avgTemp2 == trailheadTemp + summitTemp
  IN  IF avgTemp2 < 2 * 40 THEN "Yes, definitely"
      ELSE IF avgTemp2 < 2 * 45 THEN "Yes, recommended"
      ELSE IF avgTemp2 < 2 * 52 THEN "Maybe, if you run cold"
      ELSE "No"

\* getThunderstormPotential with >= in place of >
getThunderstormPotential_inclusive(cape) ==
  IF cape >= 25000 THEN <<"High thunderstorm potential">>
  ELSE IF cape >= 15000 THEN <<"Moderate thunderstorm potential">>
  ELSE IF cape >= 10000 THEN <<"Low thunderstorm potential">>
  ELSE << >>

\* cape in tenths of J/kg; null is << >>
getThunderstormPotential(cape) ==
  IF cape > 25000 THEN <<"High thunderstorm potential">>
  ELSE IF cape > 15000 THEN <<"Moderate thunderstorm potential">>
  ELSE IF cape > 10000 THEN <<"Low thunderstorm potential">>
  ELSE << >>

(***************************************************************************)
(* Report composer: generateWeatherReport from the rounding of the two     *)
(* temperatures to the returned text.  The text is a record of its lines;  *)
(* an optional line is << >> when it is the empty string.                  *)
(***************************************************************************)
\* x > n in JavaScript for x possibly undefined (undefined > n is false)
JsGreater(x, n) == x # << >> /\ x[1] > n

ComposeReport(summitMorning, trailheadMorning, summitAQIndex, targetHour) ==
  LET summitTemp == MathRound(summitMorning.temperature)
      trailheadTemp == MathRound(trailheadMorning.temperature)
      hasInversion == detectInversion(trailheadTemp, summitTemp)
      sweatEstimate ==
        estimateSweatLoss(
          10 * (trailheadTemp + summitTemp),
          10 * (trailheadMorning.humidity + summitMorning.humidity),
          trailheadMorning.windSpeed + summitMorning.windSpeed,
          2150,
          trailheadMorning.solarRadiation + summitMorning.solarRadiation)
      timeStr == IF targetHour = 5 THEN <<"Tomorrow Morning">>
                 ELSE <<"Tomorrow at", formatTime(targetHour)>>
      airQualityLine ==
        IF JsGreater(summitAQIndex, 100)
          THEN <<[aqi |-> summitAQIndex[1],
                  description |-> getAQIDescription(summitAQIndex[1])]>>
          ELSE << >>
      precipitationLine ==
        IF summitMorning.precipitationProbability > 10
          THEN <<summitMorning.precipitationProbability>>
          ELSE << >>
      thunderstormPotential == getThunderstormPotential(summitMorning.cape)
      thunderstormLine == thunderstormPotential
  IN  [header |-> timeStr,
       temperature |-> trailheadTemp,
       humidity |-> trailheadMorning.humidity,
       wind |-> <<formatWindSpeed(summitMorning.windSpeed),
                  getWindDirection(summitMorning.windDirection)>>,
       precipitationLine |-> precipitationLine,
       thunderstormLine |-> thunderstormLine,
       airQualityLine |-> airQualityLine,
       cloudCover |-> [low |-> MathRound(summitMorning.lowClouds),
                       mid |-> MathRound(summitMorning.midClouds),
                       high |-> MathRound(summitMorning.highClouds)],
       inversion |-> IF hasInversion THEN "Yes" ELSE "No",
       sweatLoss |-> sweatEstimate.liters,
       gloves |-> getGloveRecommendation(trailheadTemp, summitTemp)]

\* the us_aqi reading at the target hour: us_aqi[findIndex(...)], which is
\* us_aqi[-1], undefined, when no timestamp matches
AQIndexAt(aqHourly, targetHour, now) ==
  LET tomorrow == Tomorrow(now, targetHour)
      Test(time) == MatchesTarget(time, targetHour, tomorrow)
  IN  At(aqHourly.us_aqi,
         FindIndex([i \in 1..Len(aqHourly.time) |-> Test(aqHourly.time[i])]))

(***************************************************************************)
(* generateWeatherReport after its four fetches: the selections in source  *)
(* order and the composition.  selected lists the series an observation    *)
(* was looked up in before the function returned or threw.                 *)
(***************************************************************************)
SelectAndCompose(summitData, trailheadData, summitAQData, trailheadAQData, targetHour, now) ==
  LET summitMorning == getNextMorningData(summitData.hourly, targetHour, now)
      trailheadMorning == getNextMorningData(trailheadData.hourly, targetHour, now)
      summitAQIndex == AQIndexAt(summitAQData.hourly, targetHour, now)
      trailheadAQIndex == AQIndexAt(trailheadAQData.hourly, targetHour, now)
  IN  IF summitMorning.threw
        THEN [threw |-> TRUE, error |-> summitMorning.error,
              selected |-> <<"summitData">>]
      ELSE IF trailheadMorning.threw
        THEN [threw |-> TRUE, error |-> trailheadMorning.error,
              selected |-> <<"summitData", "trailheadData">>]
      ELSE [threw |-> FALSE,
            value |-> ComposeReport(summitMorning.value, trailheadMorning.value,
                                    summitAQIndex, targetHour),
            selected |-> <<"summitData", "trailheadData",
                           "summitAQData", "trailheadAQData">>]

(***************************************************************************)
(* Slack request verification and command parsing (the fetch handler)      *)
(***************************************************************************)
\* HMAC-SHA256 as a symbolic term: equal exactly when key and message are
Hmac(key, message) == [key |-> key, message |-> message]

\* the text of the timestamp header: the decimal numeral of n, or text that
\* the subtraction now - timestamp turns into NaN
Numeral(n) == [numeric |-> TRUE, n |-> n]
NotANumber == [numeric |-> FALSE, n |-> 0]

\* Math.abs(now - timestamp) > 300, which is false when the difference is NaN
TooOld(nowSecs, timestamp) ==
  timestamp.numeric /\ Abs(nowSecs - timestamp.n) > 300

\* the value the handler destructures: `false` has no isValid and no body
\* (both read undefined); nowSecs is Math.floor(Date.now() / 1000)
verifySlackRequest(request, signingSecret, nowSecs) ==
  LET timestamp == request.headers.timestamp
      signature == request.headers.signature
  IN  IF timestamp = << >> \/ signature = << >>
        THEN [isValid |-> FALSE, body |-> << >>]
      ELSE IF TooOld(nowSecs, timestamp[1])
        THEN [isValid |-> FALSE, body |-> << >>]
      ELSE LET body == request.body
               sigBase == <<"v0", timestamp[1], body>>
               signatureHex == Hmac(signingSecret, sigBase)
           IN  [isValid |-> (<<"v0=", signatureHex>> = signature[1]),
                body |-> <<body>>]

IsDigit(c) == c \in {"0", "1", "2", "3", "4", "5", "6", "7", "8", "9"}

DigitValue(c) ==
  CASE c = "0" -> 0 [] c = "1" -> 1 [] c = "2" -> 2 [] c = "3" -> 3
    [] c = "4" -> 4 [] c = "5" -> 5 [] c = "6" -> 6 [] c = "7" -> 7
    [] c = "8" -> 8 [] c = "9" -> 9

\* String.prototype.toLowerCase over the letters that occur in a text
ToLowerCase(text) ==
  [i \in 1..Len(text) |->
     CASE text[i] = "A" -> "a" [] text[i] = "P" -> "p" [] text[i] = "M" -> "m"
       [] OTHER -> text[i]]

\* String.prototype.includes for a two-character needle
Includes(text, c1, c2) ==
  \E i \in 1..(Len(text) - 1) : text[i] = c1 /\ text[i + 1] = c2

\* ParseTargetHour with the 0..23 validation left out
ParseTargetHour_unvalidated(text) ==
  IF \E i \in 1..Len(text) : IsDigit(text[i])
    THEN LET first == CHOOSE i \in 1..Len(text) :
                        IsDigit(text[i]) /\ \A j \in 1..(i - 1) : ~IsDigit(text[j])
             parsed == IF first < Len(text) /\ IsDigit(text[first + 1])
                         THEN 10 * DigitValue(text[first]) + DigitValue(text[first + 1])
                         ELSE DigitValue(text[first])
             isPM == Includes(ToLowerCase(text), "p", "m")
             isAM == Includes(ToLowerCase(text), "a", "m")
             hour1 == IF isPM /\ parsed < 12 THEN parsed + 12 ELSE parsed
         IN  IF isAM /\ hour1 = 12 THEN 0 ELSE hour1
    ELSE 5

\* the target hour of the fetch handler; text is a sequence of characters.
\* /(\d{1,2})(?:\s*(?:am|pm))?/i captures the first run of one or two digits.
ParseTargetHour(text) ==
  IF \E i \in 1..Len(text) : IsDigit(text[i])
    THEN LET first == CHOOSE i \in 1..Len(text) :
                        IsDigit(text[i]) /\ \A j \in 1..(i - 1) : ~IsDigit(text[j])
             parsed == IF first < Len(text) /\ IsDigit(text[first + 1])
                         THEN 10 * DigitValue(text[first]) + DigitValue(text[first + 1])
                         ELSE DigitValue(text[first])
             isPM == Includes(ToLowerCase(text), "p", "m")
             isAM == Includes(ToLowerCase(text), "a", "m")
             hour1 == IF isPM /\ parsed < 12 THEN parsed + 12 ELSE parsed
             hour == IF isAM /\ hour1 = 12 THEN 0 ELSE hour1
         IN  IF hour >= 0 /\ hour <= 23 THEN hour ELSE 5
    ELSE 5

(***************************************************************************)
(* Environment and provider                                                *)
(***************************************************************************)
env ==
  [MISSION_PEAK_SUMMIT_LAT |-> "37.5133", MISSION_PEAK_SUMMIT_LON |-> "-121.8800",
   MISSION_PEAK_SUMMIT_ELEVATION |-> "767",
   TRAILHEAD_LAT |-> "37.5100", TRAILHEAD_LON |-> "-121.8800",
   TRAILHEAD_ELEVATION |-> "0",
   SLACK_WEBHOOK_URL |-> "SLACK_WEBHOOK_URL",
   SLACK_SIGNING_SECRET |-> "SLACK_SIGNING_SECRET"]

OPEN_METEO_BASE_URL == "https://api.open-meteo.com/v1/forecast"
AIR_QUALITY_BASE_URL == "https://air-quality-api.open-meteo.com/v1/air-quality"

\* the four provider calls of generateWeatherReport, in source order
FetchPlan ==
  <<[url |-> OPEN_METEO_BASE_URL, latitude |-> env.MISSION_PEAK_SUMMIT_LAT,
     longitude |-> env.MISSION_PEAK_SUMMIT_LON,
     elevation |-> <<env.MISSION_PEAK_SUMMIT_ELEVATION>>],
    [url |-> OPEN_METEO_BASE_URL, latitude |-> env.TRAILHEAD_LAT,
     longitude |-> env.TRAILHEAD_LON,
     elevation |-> <<env.TRAILHEAD_ELEVATION>>],
    [url |-> AIR_QUALITY_BASE_URL, latitude |-> env.MISSION_PEAK_SUMMIT_LAT,
     longitude |-> env.MISSION_PEAK_SUMMIT_LON, elevation |-> << >>],
    [url |-> AIR_QUALITY_BASE_URL, latitude |-> env.TRAILHEAD_LAT,
     longitude |-> env.TRAILHEAD_LON, elevation |-> << >>]>>

\* the error a failed provider fetch throws: a non-success status, or the
\* transport error of fetch() itself
FetchError(url, failure) ==
  IF failure.kind = "status"
    THEN [name |-> "Error",
          message |-> <<IF url = OPEN_METEO_BASE_URL THEN "Open-Meteo API error:"
                        ELSE "Air Quality API error:", failure.status>>]
    ELSE [name |-> "TypeError", message |-> <<"fetch failed">>]

\* the error of a delivery that fails
DeliveryError(kind, failure) ==
  IF failure.kind = "status"
    THEN [name |-> "Error",
          message |-> <<IF kind = "POST" THEN "Failed to send response to Slack:"
                        ELSE "Slack API error:", failure.status>>]
    ELSE [name |-> "TypeError", message |-> <<"fetch failed">>]

\* the response of the catch block of the handler that started the run
ErrorResponse(kind, error) ==
  [status |-> 500,
   body |-> IF kind = "POST"
              THEN [response_type |-> "ephemeral", text |-> <<"Error:", error.message>>]
              ELSE [text |-> <<"Error:", error.message>>]]

(***************************************************************************)
(* Inputs: the clock, the provider's series, the requests                  *)
(***************************************************************************)
\* three hourly readings that differ in every field
ProfileA ==
  [temperature |-> 480, humidity |-> 55, windSpeed |-> 80, windDirection |-> 270,
   cloudCover |-> 850, lowClouds |-> 800, midClouds |-> 100, highClouds |-> 50,
   precipitationProbability |-> 5, solarRadiation |-> 0, cape |-> 0]
ProfileB ==
  [temperature |-> 420, humidity |-> 60, windSpeed |-> 30, windDirection |-> 180,
   cloudCover |-> 400, lowClouds |-> 304, midClouds |-> 205, highClouds |-> 150,
   precipitationProbability |-> 20, solarRadiation |-> 1200, cape |-> 11000]
ProfileC ==
  [temperature |-> 884, humidity |-> 30, windSpeed |-> 215, windDirection |-> 45,
   cloudCover |-> 1000, lowClouds |-> 906, midClouds |-> 555, highClouds |-> 990,
   precipitationProbability |-> 65, solarRadiation |-> 6500, cape |-> 26000]
Profiles == <<ProfileA, ProfileB, ProfileC>>

\* the provider's "hourly" object of a weather response: parallel arrays,
\* built from a sequence of [time, obs] rows
WeatherHourly(rows) ==
  [time |-> [i \in 1..Len(rows) |-> rows[i].time],
   temperature_2m |-> [i \in 1..Len(rows) |-> rows[i].obs.temperature],
   relative_humidity_2m |-> [i \in 1..Len(rows) |-> rows[i].obs.humidity],
   wind_speed_10m |-> [i \in 1..Len(rows) |-> rows[i].obs.windSpeed],
   wind_direction_10m |-> [i \in 1..Len(rows) |-> rows[i].obs.windDirection],
   cloud_cover |-> [i \in 1..Len(rows) |-> rows[i].obs.cloudCover],
   cloud_cover_low |-> [i \in 1..Len(rows) |-> rows[i].obs.lowClouds],
   cloud_cover_mid |-> [i \in 1..Len(rows) |-> rows[i].obs.midClouds],
   cloud_cover_high |-> [i \in 1..Len(rows) |-> rows[i].obs.highClouds],
   precipitation_probability |->
     [i \in 1..Len(rows) |-> rows[i].obs.precipitationProbability],
   shortwave_radiation |-> [i \in 1..Len(rows) |-> rows[i].obs.solarRadiation],
   cape |-> [i \in 1..Len(rows) |-> rows[i].obs.cape]]

\* the "hourly" object of an air-quality response
AirQualityHourly(rows) ==
  [time |-> [i \in 1..Len(rows) |-> rows[i].time],
   us_aqi |-> [i \in 1..Len(rows) |-> rows[i].aqi]]

\* the clock readings a run may start at: the day before a month end, a
\* year end and a leap day
Nows ==
  {[year |-> 2026, month |-> 10, date |-> 30, hours |-> 3, secs |-> 100000],
   [year |-> 2026, month |-> 11, date |-> 31, hours |-> 3, secs |-> 100000],
   [year |-> 2028, month |-> 1, date |-> 28, hours |-> 3, secs |-> 100000]}

RECURSIVE AddDays(_, _)
AddDays(d, n) == IF n = 0 THEN d ELSE AddDays(SetDatePlusOne(d), n - 1)

\* the provider's timestamp of hour h, n days after the day of now
TimeAt(now, n, h) ==
  LET d == AddDays(now, n)
  IN  [y |-> d.year, mo |-> d.month + 1, d |-> d.date, h |-> h]

\* the hours of the day the modelled series carry
SampleHours == <<5, 15>>

\* the i-th timestamp of a series that starts today: SampleHours of today,
\* then of tomorrow, and so on
TimelineAt(now, i) ==
  TimeAt(now, (i - 1) \div Len(SampleHours),
         SampleHours[((i - 1) % Len(SampleHours)) + 1])

\* the longest series of a provider response, in timestamps
Horizon == 4

AQIValues == <<40, 120, 160, 310>>

\* a weather response of n timestamps, the readings rotated by rot
WeatherResponse(now, n, rot) ==
  [hourly |-> WeatherHourly(
     [i \in 1..n |-> [time |-> TimelineAt(now, i),
                      obs |-> Profiles[((i + rot) % Len(Profiles)) + 1]]])]

AirQualityResponse(now, n, rot) ==
  [hourly |-> AirQualityHourly(
     [i \in 1..n |-> [time |-> TimelineAt(now, i),
                      aqi |-> AQIValues[((i + rot) % Len(AQIValues)) + 1]]])]

\* series that end today (2), after tomorrow's first sample hour (3), or at
\* the horizon
WeatherResponses(now) ==
  {WeatherResponse(now, n, rot) : n \in {2, 3, Horizon}, rot \in {0, 1}}

AirQualityResponses(now) ==
  {AirQualityResponse(now, n, rot) : n \in {2, Horizon}, rot \in {0, 1}}

ProviderResponses(url, now) ==
  IF url = OPEN_METEO_BASE_URL THEN WeatherResponses(now)
  ELSE AirQualityResponses(now)

\* the ways a fetch fails
Failures == {[kind |-> "status", status |-> 503], [kind |-> "network"]}

\* command texts, as character sequences
Texts ==
  {<< >>, <<"7">>, <<"3", "p", "m">>, <<"1", "2", " ", "A", "M">>, <<"2", "5">>}

SlashBody(command, text) ==
  [command |-> command, response_url |-> "response_url", text |-> text]

\* a POST signed with key over body signedBody and the timestamp header
SlackPost(body, key, signedBody, timestamp) ==
  [method |-> "POST", pathname |-> "/", test |-> FALSE,
   headers |-> [timestamp |-> <<timestamp>>,
                signature |-> <<<<"v0=", Hmac(key, <<"v0", timestamp, signedBody>>)>>>>],
   body |-> body]

NoHeaders == [timestamp |-> << >>, signature |-> << >>]

\* the requests the fetch handler receives at clock reading now
Requests(now) ==
  LET good == env.SLACK_SIGNING_SECRET
      mw(t) == SlashBody("/mission-weather", t)
  IN  {SlackPost(mw(t), good, mw(t), Numeral(now.secs - 10)) : t \in Texts}
      \cup {SlackPost(SlashBody("/other", << >>), good,
                      SlashBody("/other", << >>), Numeral(now.secs))}
      \cup {SlackPost(mw(<< >>), good, mw(<< >>), Numeral(now.secs - 301)),
            SlackPost(mw(<< >>), good, mw(<< >>), Numeral(now.secs - 300)),
            SlackPost(mw(<< >>), good, mw(<< >>), Numeral(now.secs + 301)),
            SlackPost(mw(<< >>), "forged", mw(<< >>), Numeral(now.secs)),
            SlackPost(mw(<<"7">>), good, mw(<< >>), Numeral(now.secs)),
            SlackPost(mw(<< >>), good, mw(<< >>), NotANumber),
            SlackPost(mw(<< >>), "forged", mw(<< >>), NotANumber)}
      \cup {[SlackPost(mw(<< >>), good, mw(<< >>), Numeral(now.secs))
               EXCEPT !.headers.signature = << >>],
            [SlackPost(mw(<< >>), good, mw(<< >>), Numeral(now.secs))
               EXCEPT !.headers.timestamp = << >>]}
      \cup {[method |-> "GET", pathname |-> "/test", test |-> FALSE,
             headers |-> NoHeaders, body |-> << >>],
            [method |-> "GET", pathname |-> "/", test |-> TRUE,
             headers |-> NoHeaders, body |-> << >>],
            [method |-> "GET", pathname |-> "/", test |-> FALSE,
             headers |-> NoHeaders, body |-> << >>],
            [method |-> "PUT", pathname |-> "/", test |-> FALSE,
             headers |-> NoHeaders, body |-> << >>]}

(***************************************************************************)
(* State.  Each invocation of the worker (a run) has its own locals; the   *)
(* worker keeps no state between invocations.                              *)
(*   pc         "idle", "fetch" (awaiting the next provider fetch),        *)
(*              "select" (all four fetched), "deliver" (awaiting the       *)
(*              delivery), "done"                                          *)
(*   kind       the entry point: "scheduled", or the request's method      *)
(*   request    the request of the fetch handler, << >> for scheduled      *)
(*   targetHour the hour handed to generateWeatherReport                   *)
(*   now        the clock reading of the run                               *)
(*   data       the parsed bodies of the successful fetches, in order      *)
(*   fetchLog   the provider fetches issued, in order, each with outcome   *)
(*   selected   the series an observation was looked up in                 *)
(*   report     << >>, or <<text>> once generateWeatherReport returned     *)
(*   error      << >>, or <<e>> once an error was thrown                   *)
(*   delivered  the calls made to the delivery collaborator                *)
(*   response   << >>, or <<r>>: the Response the handler returned         *)
(* call and result hold one application of a pure function: the function   *)
(* and its arguments, and << >> or <<its value>>.                          *)
(***************************************************************************)
VARIABLES pc, kind, request, targetHour, now, data, fetchLog, selected,
          report, error, delivered, response, call, result

runVars == <<pc, kind, request, targetHour, now, data, fetchLog, selected,
             report, error, delivered, response>>
callVars == <<call, result>>
vars == <<pc, kind, request, targetHour, now, data, fetchLog, selected,
          report, error, delivered, response, call, result>>

Runs == {1, 2}

NoCall == [fn |-> "none", args |-> << >>]

InitRuns ==
  /\ pc = [r \in Runs |-> "idle"]
  /\ kind = [r \in Runs |-> "none"]
  /\ request = [r \in Runs |-> << >>]
  /\ targetHour = [r \in Runs |-> 5]
  /\ now = [r \in Runs |-> CHOOSE n \in Nows : n.year = 2026 /\ n.month = 10]
  /\ data = [r \in Runs |-> << >>]
  /\ fetchLog = [r \in Runs |-> << >>]
  /\ selected = [r \in Runs |-> << >>]
  /\ report = [r \in Runs |-> << >>]
  /\ error = [r \in Runs |-> << >>]
  /\ delivered = [r \in Runs |-> << >>]
  /\ response = [r \in Runs |-> << >>]

Init == InitRuns /\ call = NoCall /\ result = << >>

\* the handler that started run r ends by catching e
Catch(r, e) ==
  /\ error' = [error EXCEPT ![r] = <<e>>]
  /\ response' = [response EXCEPT ![r] = <<ErrorResponse(kind[r], e)>>]
  /\ pc' = [pc EXCEPT ![r] = "done"]

\* scheduled(event, env, ctx) up to its first await
Scheduled(r) ==
  /\ pc[r] = "idle"
  /\ \E n \in Nows : now' = [now EXCEPT ![r] = n]
  /\ kind' = [kind EXCEPT ![r] = "scheduled"]
  /\ targetHour' = [targetHour EXCEPT ![r] = 5]
  /\ pc' = [pc EXCEPT ![r] = "fetch"]
  /\ UNCHANGED <<request, data, fetchLog, selected, report, error, delivered,
                 response, callVars>>

\* FetchPost that keeps the target hour in one variable of the module, shared
\* by all invocations
FetchPost_shared(r) ==
  /\ pc[r] = "idle"
  /\ \E n \in Nows : \E req \in Requests(n) :
       /\ req.method = "POST"
       /\ now' = [now EXCEPT ![r] = n]
       /\ request' = [request EXCEPT ![r] = <<req>>]
       /\ kind' = [kind EXCEPT ![r] = "POST"]
       /\ LET v == verifySlackRequest(req, env.SLACK_SIGNING_SECRET, n.secs)
          IN  IF ~v.isValid
                THEN /\ response' = [response EXCEPT ![r] =
                                       <<[status |-> 401, body |-> "Unauthorized"]>>]
                     /\ pc' = [pc EXCEPT ![r] = "done"]
                     /\ UNCHANGED targetHour
                ELSE LET formData == v.body[1]
                     IN  /\ targetHour' = [q \in Runs |->
                                             ParseTargetHour(formData.text)]
                         /\ IF formData.command = "/mission-weather"
                              THEN /\ pc' = [pc EXCEPT ![r] = "fetch"]
                                   /\ UNCHANGED response
                              ELSE /\ response' = [response EXCEPT ![r] =
                                         <<[status |-> 404, body |-> "Not found"]>>]
                                   /\ pc' = [pc EXCEPT ![r] = "done"]
  /\ UNCHANGED <<data, fetchLog, selected, report, error, delivered, callVars>>

\* fetch(request, env, ctx) for a POST, up to its first provider fetch
FetchPost(r) ==
  /\ pc[r] = "idle"
  /\ \E n \in Nows : \E req \in Requests(n) :
       /\ req.method = "POST"
       /\ now' = [now EXCEPT ![r] = n]
       /\ request' = [request EXCEPT ![r] = <<req>>]
       /\ kind' = [kind EXCEPT ![r] = "POST"]
       /\ LET v == verifySlackRequest(req, env.SLACK_SIGNING_SECRET, n.secs)
          IN  IF ~v.isValid
                THEN /\ response' = [response EXCEPT ![r] =
                                       <<[status |-> 401, body |-> "Unauthorized"]>>]
                     /\ pc' = [pc EXCEPT ![r] = "done"]
                     /\ UNCHANGED targetHour
                ELSE LET formData == v.body[1]
                     IN  /\ targetHour' = [targetHour EXCEPT ![r] =
                                             ParseTargetHour(formData.text)]
                         /\ IF formData.command = "/mission-weather"
                              THEN /\ pc' = [pc EXCEPT ![r] = "fetch"]
                                   /\ UNCHANGED response
                              ELSE /\ response' = [response EXCEPT ![r] =
                                         <<[status |-> 404, body |-> "Not found"]>>]
                                   /\ pc' = [pc EXCEPT ![r] = "done"]
  /\ UNCHANGED <<data, fetchLog, selected, report, error, delivered, callVars>>

\* fetch(request, env, ctx) for any other method, up to its first provider fetch
FetchGet(r) ==
  /\ pc[r] = "idle"
  /\ \E n \in Nows : \E req \in Requests(n) :
       /\ req.method # "POST"
       /\ now' = [now EXCEPT ![r] = n]
       /\ request' = [request EXCEPT ![r] = <<req>>]
       /\ kind' = [kind EXCEPT ![r] = req.method]
       /\ IF req.method = "GET" /\ (req.pathname = "/test" \/ req.test)
            THEN /\ pc' = [pc EXCEPT ![r] = "fetch"]
                 /\ UNCHANGED response
            ELSE /\ response' = [response EXCEPT ![r] =
                                   <<[status |-> 404, body |-> "Not found"]>>]
                 /\ pc' = [pc EXCEPT ![r] = "done"]
  /\ targetHour' = [targetHour EXCEPT ![r] = 5]
  /\ UNCHANGED <<data, fetchLog, selected, report, error, delivered, callVars>>

\* AfterFetch that starts selecting one fetch early
AfterFetch_early(k) == IF k < Len(FetchPlan) - 1 THEN "fetch" ELSE "select"

\* where generateWeatherReport goes after its k-th fetch succeeded
AfterFetch(k) == IF k < Len(FetchPlan) THEN "fetch" ELSE "select"

\* the next await of fetchWeatherData / fetchAirQualityData resolves
ProviderFetchOk(r) ==
  /\ pc[r] = "fetch"
  /\ LET k == Len(fetchLog[r]) + 1
     IN  /\ \E resp \in ProviderResponses(FetchPlan[k].url, now[r]) :
              data' = [data EXCEPT ![r] = Append(@, resp)]
         /\ fetchLog' = [fetchLog EXCEPT ![r] =
                           Append(@, [call |-> FetchPlan[k], ok |-> TRUE])]
         /\ pc' = [pc EXCEPT ![r] = AfterFetch(k)]
  /\ UNCHANGED <<kind, request, targetHour, now, selected, report, error,
                 delivered, response, callVars>>

\* ProviderFetchFail that swallows the error: an empty series stands in for
\* the failed fetch and generateWeatherReport carries on
ProviderFetchFail_swallow(r) ==
  /\ pc[r] = "fetch"
  /\ LET k == Len(fetchLog[r]) + 1
     IN  /\ fetchLog' = [fetchLog EXCEPT ![r] =
                           Append(@, [call |-> FetchPlan[k], ok |-> FALSE])]
         /\ data' = [data EXCEPT ![r] =
                       Append(@, IF FetchPlan[k].url = OPEN_METEO_BASE_URL
                                   THEN [hourly |-> WeatherHourly(<< >>)]
                                   ELSE [hourly |-> AirQualityHourly(<< >>)])]
         /\ pc' = [pc EXCEPT ![r] = AfterFetch(k)]
  /\ UNCHANGED <<kind, request, targetHour, now, selected, report, error,
                 delivered, response, callVars>>

\* the next await of fetchWeatherData / fetchAirQualityData rejects: the
\* error is logged and rethrown, generateWeatherReport rejects with it and
\* the handler's catch answers
ProviderFetchFail(r) ==
  /\ pc[r] = "fetch"
  /\ LET k == Len(fetchLog[r]) + 1
     IN  /\ fetchLog' = [fetchLog EXCEPT ![r] =
                           Append(@, [call |-> FetchPlan[k], ok |-> FALSE])]
         /\ \E f \in Failures : Catch(r, FetchError(FetchPlan[k].url, f))
  /\ UNCHANGED <<kind, request, targetHour, now, data, selected, report,
                 delivered, callVars>>

\* generateWeatherReport from its first selection to its return or throw
SelectCompose(r) ==
  /\ pc[r] = "select"
  /\ LET out == SelectAndCompose(data[r][1], data[r][2], data[r][3], data[r][4],
                                 targetHour[r], now[r])
     IN  /\ selected' = [selected EXCEPT ![r] = out.selected]
         /\ IF out.threw
              THEN /\ Catch(r, out.error)
                   /\ UNCHANGED report
              ELSE /\ report' = [report EXCEPT ![r] = <<out.value>>]
                   /\ pc' = [pc EXCEPT ![r] = "deliver"]
                   /\ UNCHANGED <<error, response>>
  /\ UNCHANGED <<kind, request, targetHour, now, data, fetchLog, delivered,
                 callVars>>

\* the call made to the delivery collaborator: sendToSlack(message, webhook)
\* for scheduled and the test endpoint, the response_url POST for a command
DeliveryCall(r) ==
  IF kind[r] = "POST"
    THEN [url |-> request[r][1].body.response_url,
          body |-> [response_type |-> "in_channel", text |-> report[r][1]]]
    ELSE [url |-> env.SLACK_WEBHOOK_URL, body |-> [text |-> report[r][1]]]

SuccessResponse(k) ==
  [status |-> 200,
   body |-> IF k = "scheduled" THEN "Weather report sent successfully"
            ELSE IF k = "POST" THEN "" ELSE "Test weather report sent successfully"]

DeliverOk(r) ==
  /\ pc[r] = "deliver"
  /\ delivered' = [delivered EXCEPT ![r] = Append(@, DeliveryCall(r))]
  /\ response' = [response EXCEPT ![r] = <<SuccessResponse(kind[r])>>]
  /\ pc' = [pc EXCEPT ![r] = "done"]
  /\ UNCHANGED <<kind, request, targetHour, now, data, fetchLog, selected,
                 report, error, callVars>>

DeliverFail(r) ==
  /\ pc[r] = "deliver"
  /\ delivered' = [delivered EXCEPT ![r] = Append(@, DeliveryCall(r))]
  /\ \E f \in Failures : Catch(r, DeliveryError(kind[r], f))
  /\ UNCHANGED <<kind, request, targetHour, now, data, fetchLog, selected,
                 report, callVars>>

\* one invocation of the worker
Next ==
  \E r \in {1} :
    \/ Scheduled(r)
    \/ FetchPost(r)
    \/ FetchGet(r)
    \/ ProviderFetchOk(r)
    \/ ProviderFetchFail(r)
    \/ SelectCompose(r)
    \/ DeliverOk(r)
    \/ DeliverFail(r)

Spec == Init /\ [][Next]_vars

(***************************************************************************)
(* The pure functions on their own: Init draws one application, the        *)
(* action of the function applies it.                                      *)
(***************************************************************************)
\* wind speeds 0 .. MaxSpeed tenths of a mph
MaxSpeed == 260
\* compass degrees 0 .. MaxDegrees
MaxDegrees == 400
\* whole temperatures MinTemp .. MaxTemp for the glove advice
MinTemp == 30
MaxTemp == 60
\* the longest series handed to getNextMorningData
MaxLen == 2

\* sweat-loss inputs, in twentieths: degrees F, percent, mph, W/m2
SweatTemps == {20 * t : t \in {0, 10, 19, 20, 21, 45, 70, 100}}
SweatHumidities == {0, 600, 1000, 1150, 2000}
SweatWinds == {0, 100, 160, 1000, 2000, 2400}
SweatSolars == {0, 5000, 19999, 20000, 24000}

\* target hours tried on the pure functions
CallHours == {5, 15}

\* rows of a series handed to getNextMorningData: today, tomorrow and the
\* day after at the sample hours, and tomorrow's date a year later
CallTimes(n) ==
  {TimeAt(n, d, h) : d \in {0, 1, 2}, h \in {5, 15}}
    \cup {[TimeAt(n, 1, h) EXCEPT !.y = @ + 1] : h \in {5}}

CallRows(n) == {[time |-> t, obs |-> Profiles[p]] : t \in CallTimes(n), p \in 1..2}

RECURSIVE SeqsUpTo(_, _)
SeqsUpTo(S, n) ==
  IF n = 0 THEN {<< >>}
  ELSE LET shorter == SeqsUpTo(S, n - 1)
       IN  shorter \cup {Append(q, x) : q \in {t \in shorter : Len(t) = n - 1}, x \in S}

\* readings handed to ComposeReport: the thresholds of each optional line
\* and temperatures that round together or apart
ComposeSummits ==
  {[ProfileA EXCEPT !.temperature = t, !.precipitationProbability = p, !.cape = c] :
     t \in {476, 495, 504, 505, 520}, p \in {0, 10, 11, 65},
     c \in {0, 10000, 10010, 15000, 15010, 25000, 25010}}
ComposeTrailheads == {[ProfileB EXCEPT !.temperature = t] : t \in {495, 500, 504, 520}}
ComposeAQIs ==
  {<< >>} \cup {<<a>> : a \in {40, 100, 101, 150, 151, 200, 201, 300, 301}}

Calls ==
  {[fn |-> "formatWindSpeed", args |-> <<s>>] : s \in 0..MaxSpeed}
  \cup {[fn |-> "getWindDirection", args |-> <<d>>] : d \in 0..MaxDegrees}
  \cup {[fn |-> "getGloveRecommendation", args |-> <<a, b>>] :
          a \in MinTemp..MaxTemp, b \in MinTemp..MaxTemp}
  \cup {[fn |-> "estimateSweatLoss", args |-> <<t, h, w, 2150, s>>] :
          t \in SweatTemps, h \in SweatHumidities, w \in SweatWinds, s \in SweatSolars}
  \cup UNION {{[fn |-> "getNextMorningData",
                args |-> <<WeatherHourly(rows), h, n>>] :
                  rows \in SeqsUpTo(CallRows(n), MaxLen), h \in CallHours} : n \in Nows}
  \cup {[fn |-> "ComposeReport", args |-> <<s, t, a, h>>] :
          s \in ComposeSummits, t \in ComposeTrailheads, a \in ComposeAQIs,
          h \in CallHours}

InitAnalyzer == InitRuns /\ call \in Calls /\ result = << >>

Returns(fn, value) ==
  /\ call.fn = fn
  /\ result = << >>
  /\ result' = <<value>>
  /\ UNCHANGED <<call, runVars>>

CallFormatWindSpeed == Returns("formatWindSpeed", formatWindSpeed(call.args[1]))

CallGetWindDirection == Returns("getWindDirection", getWindDirection(call.args[1]))

CallGetGloveRecommendation ==
  Returns("getGloveRecommendation",
          getGloveRecommendation(call.args[1], call.args[2]))

CallEstimateSweatLoss ==
  Returns("estimateSweatLoss",
          estimateSweatLoss(call.args[1], call.args[2], call.args[3],
                            call.args[4], call.args[5]))

CallGetNextMorningData ==
  Returns("getNextMorningData",
          getNextMorningData(call.args[1], call.args[2], call.args[3]))

CallComposeReport ==
  Returns("ComposeReport",
          ComposeReport(call.args[1], call.args[2], call.args[3], call.args[4]))

NextAnalyzer ==
  \/ CallFormatWindSpeed
  \/ CallGetWindDirection
  \/ CallGetGloveRecommendation
  \/ CallEstimateSweatLoss
  \/ CallGetNextMorningData
  \/ CallComposeReport

SpecAnalyzer == InitAnalyzer /\ [][NextAnalyzer]_vars

(***************************************************************************)
(* Claims about the pure functions (checked under SpecAnalyzer)            *)
(***************************************************************************)
Returned(fn) == call.fn = fn /\ result # << >>

\* C4: in every composed report the precipitation line is present, with the
\* literal percentage, iff the probability is > 10; the thunderstorm line
\* is present iff CAPE > 1000 and names High above 2500, Moderate above
\* 1500, Low otherwise; the air-quality line is present iff AQI > 100 and
\* carries the label of the AQI's bucket.
C4_OptionalLines ==
  Returned("ComposeReport") =>
    LET summit == call.args[1]
        aqi == call.args[3]
        p == summit.precipitationProbability
        rep == result[1]
    IN  /\ (p > 10) = (rep.precipitationLine # << >>)
        /\ p > 10 => rep.precipitationLine = <<p>>
        /\ (summit.cape > 10000) = (rep.thunderstormLine # << >>)
        /\ summit.cape > 25000 =>
             rep.thunderstormLine = <<"High thunderstorm potential">>
        /\ summit.cape > 15000 /\ summit.cape <= 25000 =>
             rep.thunderstormLine = <<"Moderate thunderstorm potential">>
        /\ summit.cape > 10000 /\ summit.cape <= 15000 =>
             rep.thunderstormLine = <<"Low thunderstorm potential">>
        /\ (aqi # << >> /\ aqi[1] > 100) = (rep.airQualityLine # << >>)
        /\ aqi # << >> /\ aqi[1] > 100 =>
             /\ rep.airQualityLine[1].aqi = aqi[1]
             /\ rep.airQualityLine[1].description =
                  (IF aqi[1] <= 150 THEN "Unhealthy for Sensitive Groups"
                   ELSE IF aqi[1] <= 200 THEN "Unhealthy"
                   ELSE IF aqi[1] <= 300 THEN "Very Unhealthy"
                   ELSE "Hazardous")

\* C4 witness: a report composed at 11 % rain, CAPE 1001 and AQI 101
\* carries all three optional lines; one at 10 %, 1000, 100 would carry none
C4_Witness ==
  /\ Returned("ComposeReport")
  /\ call.args[1].precipitationProbability = 11
  /\ call.args[1].cape = 10010
  /\ call.args[3] = <<101>>
  /\ result[1].precipitationLine = <<11>>
  /\ result[1].thunderstormLine = <<"Low thunderstorm potential">>
  /\ result[1].airQualityLine # << >>

\* C5 (as claimed): the report's Temperature Inversion is Yes exactly when
\* the selected summit temperature is strictly greater than the selected
\* trailhead temperature.
C5_InversionOfSelected ==
  Returned("ComposeReport") =>
    (result[1].inversion = "Yes")
      = (call.args[1].temperature > call.args[2].temperature)

\* C6: given a series that holds tomorrow's date at the target hour,
\* getNextMorningData returns an observation whose eleven fields all come
\* from one index, the first whose timestamp has the target hour, tomorrow's
\* day-of-month and tomorrow's month; the series is left as it was.
C6_FirstMatchingIndex ==
  Returned("getNextMorningData") =>
    LET hourly == call.args[1]
        h == call.args[2]
        tomorrow == SetDatePlusOne(call.args[3])
        Hit(i) == /\ hourly.time[i].h = h
                  /\ hourly.time[i].d = tomorrow.date
                  /\ hourly.time[i].mo = tomorrow.month + 1
    IN  (\E i \in 1..Len(hourly.time) : Hit(i) /\ hourly.time[i].y = tomorrow.year)
          => /\ ~result[1].threw
             /\ \E i \in 1..Len(hourly.time) :
                  /\ Hit(i)
                  /\ \A j \in 1..(i - 1) : ~Hit(j)
                  /\ result[1].value =
                       [temperature |-> hourly.temperature_2m[i],
                        humidity |-> hourly.relative_humidity_2m[i],
                        windSpeed |-> hourly.wind_speed_10m[i],
                        windDirection |-> hourly.wind_direction_10m[i],
                        cloudCover |-> hourly.cloud_cover[i],
                        lowClouds |-> hourly.cloud_cover_low[i],
                        midClouds |-> hourly.cloud_cover_mid[i],
                        highClouds |-> hourly.cloud_cover_high[i],
                        precipitationProbability |->
                          hourly.precipitation_probability[i],
                        solarRadiation |-> hourly.shortwave_radiation[i],
                        cape |-> hourly.cape[i]]

C6_SelectsAndPreserves == []C6_FirstMatchingIndex /\ [][call' = call]_vars

\* C6 witness: a two-row series whose rows both match, with different
\* readings: the first row's readings were returned
C6_Witness ==
  /\ Returned("getNextMorningData")
  /\ Len(call.args[1].time) = 2
  /\ call.args[1].time[1] = call.args[1].time[2]
  /\ call.args[1].time[1].y = SetDatePlusOne(call.args[3]).year
  /\ call.args[1].temperature_2m[1] # call.args[1].temperature_2m[2]
  /\ ~result[1].threw
  /\ result[1].value.temperature = call.args[1].temperature_2m[1]

SweatLiters(t, h, w, s) == estimateSweatLoss(t, h, w, 2150, s).liters

\* C7 (as claimed): for every input tuple, raising temperature, humidity or
\* solar radiation never lowers the returned liters and raising wind speed
\* never raises it.
C7_Monotone ==
  Returned("estimateSweatLoss") =>
    LET t == call.args[1]
        h == call.args[2]
        w == call.args[3]
        s == call.args[5]
        liters == result[1].liters
    IN  /\ \A t2 \in SweatTemps : t2 >= t => SweatLiters(t2, h, w, s) >= liters
        /\ \A h2 \in SweatHumidities : h2 >= h => SweatLiters(t, h2, w, s) >= liters
        /\ \A s2 \in SweatSolars : s2 >= s => SweatLiters(t, h, w, s2) >= liters
        /\ \A w2 \in SweatWinds : w2 >= w => SweatLiters(t, h, w2, s) <= liters

\* C8: getWindDirection maps every compass degree to one of the eight
\* labels, the one at the integer nearest to degrees/45 modulo 8; 0 gives N,
\* 45 gives NE, 360 gives N, and d and d + 360 have the same label.
C8_WindDirection ==
  Returned("getWindDirection") =>
    LET d == call.args[1]
        label == result[1]
    IN  /\ label \in {"N", "NE", "E", "SE", "S", "SW", "W", "NW"}
        /\ \E q \in 0..(d \div 45 + 1) :
             /\ 2 * Abs(45 * q - d) <= 45
             /\ label = <<"N", "NE", "E", "SE", "S", "SW", "W", "NW">>[(q % 8) + 1]
        /\ d = 0 => label = "N"
        /\ d = 45 => label = "NE"
        /\ d = 360 => label = "N"
        /\ getWindDirection(d + 360) = label

\* C8 witness: 360 degrees wrapped round to N
C8_Witness ==
  Returned("getWindDirection") /\ call.args[1] = 360 /\ result[1] = "N"

\* the five descriptions with their ranges [lo, hi) in tenths of a mph; the
\* last has no upper end
WindBuckets ==
  {[label |-> "Calm", lo |-> 0, hi |-> <<50>>],
   [label |-> "Light breeze", lo |-> 50, hi |-> <<100>>],
   [label |-> "Moderate breeze", lo |-> 100, hi |-> <<150>>],
   [label |-> "Strong breeze", lo |-> 150, hi |-> <<200>>],
   [label |-> "High winds", lo |-> 200, hi |-> << >>]}

\* C9: formatWindSpeed gives every speed in [0, infinity) the description of
\* the one range that holds it, each boundary (5, 10, 15, 20) belonging to
\* the higher range.
C9_WindBuckets ==
  Returned("formatWindSpeed") =>
    LET speed == call.args[1]
        holding == {b \in WindBuckets :
                      b.lo <= speed /\ (b.hi = << >> \/ speed < b.hi[1])}
    IN  /\ Cardinality(holding) = 1
        /\ \A b \in holding : result[1] = b.label

\* C9 witness: exactly 5 mph is a Light breeze, exactly 20 mph High winds
C9_Witness ==
  /\ Returned("formatWindSpeed")
  /\ call.args[1] = 200
  /\ result[1] = "High winds"

Strictness(advice) ==
  CASE advice = "Yes, definitely" -> 3
    [] advice = "Yes, recommended" -> 2
    [] advice = "Maybe, if you run cold" -> 1
    [] advice = "No" -> 0

\* C10: on the average of the two temperatures getGloveRecommendation gives
\* 'Yes, definitely' below 40, 'Yes, recommended' from 40 to below 45,
\* 'Maybe, if you run cold' from 45 to below 52 and 'No' from 52 up; a
\* higher average never gets a stricter recommendation.
C10_Gloves ==
  Returned("getGloveRecommendation") =>
    LET sum == call.args[1] + call.args[2]
        advice == result[1]
    IN  /\ (advice = "Yes, definitely") = (sum < 80)
        /\ (advice = "Yes, recommended") = (sum >= 80 /\ sum < 90)
        /\ (advice = "Maybe, if you run cold") = (sum >= 90 /\ sum < 104)
        /\ (advice = "No") = (sum >= 104)
        /\ \A a \in MinTemp..MaxTemp, b \in MinTemp..MaxTemp :
             a + b >= sum =>
               Strictness(getGloveRecommendation(a, b)) <= Strictness(advice)

\* C10 witness: 42 and 48 average exactly 45, the first 'Maybe'
C10_Witness ==
  /\ Returned("getGloveRecommendation")
  /\ call.args = <<42, 48>>
  /\ result[1] = "Maybe, if you run cold"

(***************************************************************************)
(* Claims about a run (checked under Spec)                                 *)
(***************************************************************************)
\* series k of run r holds a timestamp matching the target hour of tomorrow
HasTargetHour(r, k) ==
  \E i \in 1..Len(data[r][k].hourly.time) :
    MatchesTarget(data[r][k].hourly.time[i], targetHour[r],
                  Tomorrow(now[r], targetHour[r]))

\* C1 (as claimed): once generateWeatherReport has gone through its
\* selections, if any one of the four fetched series held no timestamp
\* matching the target hour of tomorrow, the run was aborted with the
\* no-data error and no report text exists.
C1_MissingHourAborts ==
  \A r \in Runs :
    (pc[r] \in {"deliver", "done"} /\ Len(data[r]) = 4
       /\ \E k \in 1..4 : ~HasTargetHour(r, k))
      => /\ report[r] = << >>
         /\ error[r] = <<NoDataError(targetHour[r])>>

\* C2: if a provider fetch of a run failed, it was the run's last fetch and
\* its only failure, every earlier fetch was a different call that
\* succeeded, the run ended with the error that fetch threw (the handler
\* answered 500 with its message), nothing was selected, no report text
\* exists and the delivery collaborator was not called.
C2_FetchFailureAborts ==
  \A r \in Runs : \A k \in 1..Len(fetchLog[r]) :
    ~fetchLog[r][k].ok =>
      /\ k = Len(fetchLog[r])
      /\ \A j \in 1..(k - 1) :
           fetchLog[r][j].ok /\ fetchLog[r][j].call # fetchLog[r][k].call
      /\ pc[r] = "done"
      /\ \E f \in Failures :
           LET thrown ==
                 IF f.kind = "status"
                   THEN [name |-> "Error",
                         message |-> <<IF k <= 2 THEN "Open-Meteo API error:"
                                       ELSE "Air Quality API error:", f.status>>]
                   ELSE [name |-> "TypeError", message |-> <<"fetch failed">>]
           IN  /\ error[r] = <<thrown>>
               /\ response[r] # << >>
               /\ response[r][1].status = 500
               /\ response[r][1].body.text = <<"Error:", thrown.message>>
      /\ selected[r] = << >>
      /\ report[r] = << >>
      /\ delivered[r] = << >>

\* C2 witness: a slash-command run whose third fetch (summit air quality)
\* failed after two successful weather fetches
C2_Witness ==
  /\ kind[1] = "POST"
  /\ Len(fetchLog[1]) = 3
  /\ fetchLog[1][1].ok /\ fetchLog[1][2].ok /\ ~fetchLog[1][3].ok
  /\ pc[1] = "done"
  /\ response[1] # << >>
  /\ response[1][1].status = 500

LocationOf(c) ==
  IF c.latitude = env.MISSION_PEAK_SUMMIT_LAT /\ c.longitude = env.MISSION_PEAK_SUMMIT_LON
    THEN "summit" ELSE "trailhead"
CategoryOf(c) == IF c.url = OPEN_METEO_BASE_URL THEN "weather" ELSE "air-quality"

\* C3: a run selects an hour only after four provider fetches have all
\* succeeded, and a run that produced a report issued exactly four fetches,
\* one for each of summit/trailhead x weather/air-quality.
C3_FourFetchesBeforeSelection ==
  \A r \in Runs :
    (pc[r] = "select" \/ selected[r] # << >> \/ report[r] # << >>) =>
      /\ Len(fetchLog[r]) = 4
      /\ \A k \in 1..4 : fetchLog[r][k].ok
      /\ {<<LocationOf(fetchLog[r][k].call), CategoryOf(fetchLog[r][k].call)>> :
            k \in 1..4}
           = {"summit", "trailhead"} \X {"weather", "air-quality"}

\* C3 witness: a run that fetched four times, selected from all four series,
\* composed a report and delivered it
C3_Witness ==
  /\ Len(fetchLog[1]) = 4
  /\ Len(selected[1]) = 4
  /\ report[1] # << >>
  /\ delivered[1] # << >>
  /\ pc[1] = "done"

(***************************************************************************)
(* The command text on its own: Init draws a text, the action parses it    *)
(* as the fetch handler does (checked under SpecCommand).                  *)
(***************************************************************************)
\* the longest command text
MaxTextLen == 4

TextChars == {"0", "1", "2", "5", " ", "a", "p", "m", "P"}

InitCommand ==
  /\ InitRuns
  /\ call \in {[fn |-> "ParseTargetHour", args |-> <<t>>] :
                 t \in SeqsUpTo(TextChars, MaxTextLen)}
  /\ result = << >>

CallParseTargetHour == Returns("ParseTargetHour", ParseTargetHour(call.args[1]))

NextCommand == CallParseTargetHour

SpecCommand == InitCommand /\ [][NextCommand]_vars

\* the characters of text in lower case
Lowered(text, i) ==
  IF text[i] = "P" THEN "p" ELSE IF text[i] = "A" THEN "a"
  ELSE IF text[i] = "M" THEN "m" ELSE text[i]

\* C12: for every command text the target hour is in 0..23: it is 5 when
\* the text holds no digit, or when the hour read from its first one or two
\* digits (plus 12 when the text holds 'pm' and the hour is below 12, then 0
\* when the text holds 'am' and the hour is 12) is outside 0..23; otherwise
\* it is that hour.
C12_TargetHour ==
  Returned("ParseTargetHour") =>
    LET text == call.args[1]
        hour == result[1]
        digitsAt == {i \in 1..Len(text) : text[i] \in {"0", "1", "2", "5"}}
        Val(c) == IF c = "0" THEN 0 ELSE IF c = "1" THEN 1
                  ELSE IF c = "2" THEN 2 ELSE 5
        Holds(c1, c2) == \E i \in 1..(Len(text) - 1) :
                           Lowered(text, i) = c1 /\ Lowered(text, i + 1) = c2
    IN  /\ hour \in 0..23
        /\ digitsAt = {} => hour = 5
        /\ digitsAt # {} =>
             LET first == CHOOSE i \in digitsAt : \A j \in digitsAt : i <= j
                 read == IF (first + 1) \in digitsAt
                           THEN 10 * Val(text[first]) + Val(text[first + 1])
                           ELSE Val(text[first])
                 afternoon == IF Holds("p", "m") /\ read < 12 THEN read + 12 ELSE read
                 parsed == IF Holds("a", "m") /\ afternoon = 12 THEN 0 ELSE afternoon
             IN  hour = IF parsed \in 0..23 THEN parsed ELSE 5

\* C12 witness: "25" falls back to 5
C12_Witness ==
  /\ Returned("ParseTargetHour")
  /\ call.args[1] = <<"2", "5">>
  /\ result[1] = 5

\* the request of run r carries a Slack signature that verifies: both headers
\* present, the timestamp within 300 seconds of the clock, the signature the
\* HMAC of "v0:timestamp:body" under the signing secret
SignatureVerifies(r) ==
  LET req == request[r][1]
      timestamp == req.headers.timestamp
      signature == req.headers.signature
  IN  /\ timestamp # << >>
      /\ signature # << >>
      /\ timestamp[1].numeric
      /\ timestamp[1].n \in (now[r].secs - 300)..(now[r].secs + 300)
      /\ signature[1] =
           <<"v0=", Hmac(env.SLACK_SIGNING_SECRET, <<"v0", timestamp[1], req.body>>)>>

\* run r entered the report pipeline
PipelineTriggered(r) ==
  \/ pc[r] \in {"fetch", "select", "deliver"}
  \/ fetchLog[r] # << >>
  \/ report[r] # << >>
  \/ delivered[r] # << >>

\* C13: a POST triggers the report pipeline only if its signature verifies
\* and its command is '/mission-weather'; a POST that fails verification is
\* answered 401 with no provider fetch, no report and no delivery.
C13_VerifiedCommandsOnly ==
  \A r \in Runs :
    kind[r] = "POST" =>
      /\ PipelineTriggered(r) =>
           /\ SignatureVerifies(r)
           /\ request[r][1].body.command = "/mission-weather"
      /\ ~SignatureVerifies(r) =>
           /\ response[r] = <<[status |-> 401, body |-> "Unauthorized"]>>
           /\ fetchLog[r] = << >>
           /\ report[r] = << >>
           /\ delivered[r] = << >>

(***************************************************************************)
(* Two overlapping invocations: run 1 is started by the timer, run 2 by a  *)
(* slash command; their awaits resolve in any order (SpecConcurrent).      *)
(***************************************************************************)
ConcurrentNow == CHOOSE n \in Nows : n.year = 2026 /\ n.month = 10

\* the commands of run 2: no text (5 am), "3pm", and one with a forged signature
ConcurrentRequests ==
  LET good == env.SLACK_SIGNING_SECRET
      mw(t) == SlashBody("/mission-weather", t)
      at == Numeral(ConcurrentNow.secs - 10)
  IN  {SlackPost(mw(<< >>), good, mw(<< >>), at),
       SlackPost(mw(<<"3", "p", "m">>), good, mw(<<"3", "p", "m">>), at),
       SlackPost(mw(<< >>), "forged", mw(<< >>), at)}

\* the bodies a provider returns to either run: a series that ends at
\* tomorrow 5:00 and one that reaches tomorrow 15:00, with other readings
ConcurrentResponses(url) ==
  IF url = OPEN_METEO_BASE_URL
    THEN {WeatherResponse(ConcurrentNow, 3, 0), WeatherResponse(ConcurrentNow, Horizon, 1)}
    ELSE {AirQualityResponse(ConcurrentNow, 2, 0),
          AirQualityResponse(ConcurrentNow, Horizon, 1)}

NextConcurrent ==
  \/ Scheduled(1) /\ now'[1] = ConcurrentNow
  \/ FetchPost(2) /\ now'[2] = ConcurrentNow /\ request'[2][1] \in ConcurrentRequests
  \/ \E r \in Runs :
       \/ /\ ProviderFetchOk(r)
          /\ data'[r][Len(data'[r])] \in
               ConcurrentResponses(FetchPlan[Len(fetchLog[r]) + 1].url)
       \/ ProviderFetchFail(r)
       \/ SelectCompose(r)
       \/ DeliverOk(r)
       \/ DeliverFail(r)

SpecConcurrent == Init /\ [][NextConcurrent]_vars

\* everything run r holds
RunState(r) ==
  <<pc[r], kind[r], request[r], targetHour[r], now[r], data[r], fetchLog[r],
    selected[r], report[r], error[r], delivered[r], response[r]>>

\* the target hour run r was started with
OwnTargetHour(r) ==
  IF kind[r] = "POST" THEN ParseTargetHour(request[r][1].body.text) ELSE 5

\* what generateWeatherReport gives, running alone, for the target hour of
\* run r and the bodies returned to the fetches of run r
AloneOutcome(r) ==
  SelectAndCompose(data[r][1], data[r][2], data[r][3], data[r][4],
                   OwnTargetHour(r), now[r])

\* the outcome of run r is the one its own inputs give
OwnOutcome(r) ==
  /\ report[r] # << >> =>
       /\ Len(data[r]) = Len(FetchPlan)
       /\ ~AloneOutcome(r).threw
       /\ report[r] = <<AloneOutcome(r).value>>
  /\ (error[r] # << >> /\ delivered[r] = << >>) =>
       IF Len(data[r]) = Len(FetchPlan)
         THEN AloneOutcome(r).threw /\ error[r] = <<AloneOutcome(r).error>>
         ELSE LET k == Len(fetchLog[r])
              IN  /\ k = Len(data[r]) + 1
                  /\ ~fetchLog[r][k].ok
                  /\ \E f \in Failures :
                       error[r] = <<FetchError(FetchPlan[k].url, f)>>

\* a step belongs to one run and leaves the other run as it was
OneRunSteps == \E r \in Runs : \A q \in Runs \ {r} : RunState(q)' = RunState(q)

\* C11: of two overlapping invocations whose fetches interleave in any
\* order, each has the outcome (report or error) that its own target hour and
\* the data returned to its own fetches give when it runs alone, and no step
\* of one run changes anything the other run holds.
C11_IndependentRuns ==
  /\ [](\A r \in Runs : OwnOutcome(r))
  /\ [][OneRunSteps]_vars

\* C11 witness: the command run reported for 3 pm while the scheduled run,
\* two fetches in, is still waiting, and the two hold different data
C11_Witness ==
  /\ kind[1] = "scheduled" /\ pc[1] = "fetch" /\ Len(fetchLog[1]) = 2
  /\ kind[2] = "POST" /\ targetHour[2] = 15 /\ report[2] # << >>
  /\ data[1][1] # data[2][1]

====
